---- MODULE Spec2Model ----
(***************************************************************************)
(* The EchoAgents voice console (frontend/src/index.tsx): the VoiceConsole *)
(* component's state, its event handlers, the promises they wait on, and   *)
(* the conditions under which the rendered controls are offered.           *)
(*                                                                         *)
(* A step is one browser task: a click handler up to its first await, the  *)
(* continuation of a handler after a promise settles, or a MediaRecorder   *)
(* stop event.  The render is taken to be up to date at every click, so a  *)
(* click is possible exactly when its control is offered in the state.     *)
(***************************************************************************)
EXTENDS Integers, Sequences, FiniteSets, TLC

VARIABLES
    recording,          \* useState(false)                       index.tsx:26
    mediaRecorder,      \* useState<MediaRecorder|null>: 0 = null, else a recorder id
    audioBlob,          \* useState<Blob|null>: 0 = null, else the id of the recorder that produced it
    transcript,         \* useState("")
    originalTranscript, \* useState("")
    manualText,         \* useState("")
    confirmedResult,    \* useState<any>(null): the last reply body stored
    pendingEmail,       \* useState<any>(null): the draft held
    draftStyle,         \* useState("formal")
    showDiff,           \* useState(false)
    inFlight,           \* useState(false)
    logs,               \* useState<string[]>([]), newest first
    logKeep,            \* old entries an append keeps (199 in index.tsx:52); never changes
    acquiring,          \* getUserMedia promises not yet settled
    recorders,          \* recorder id -> "none" | "recording" | "stopping" | "inactive"
    outstanding,        \* fetch requests not yet settled, in issue order
    call                \* a call of a pure function studied on its own: its arguments
                        \* and, once it has returned, its result; NoCall in the console

vars == <<recording, mediaRecorder, audioBlob, transcript, originalTranscript,
          manualText, confirmedResult, pendingEmail, draftStyle, showDiff,
          inFlight, logs, logKeep, acquiring, recorders, outstanding, call>>

\* The state of the console itself.
console == <<recording, mediaRecorder, audioBlob, transcript, originalTranscript,
             manualText, confirmedResult, pendingEmail, draftStyle, showDiff,
             inFlight, logs, logKeep, acquiring, recorders, outstanding>>

\* The capture state and the log window: what no network handler writes.
capture == <<recording, mediaRecorder, audioBlob, acquiring, recorders, logKeep, call>>

(***************************************************************************)
(* Bounds of the model.                                                    *)
(***************************************************************************)
\* MediaRecorder objects created in one behaviour (and so audio blobs).
MaxCaptures == 2
\* Old entries an append keeps in the specifications of the workflow, in
\* place of the console's 199, so that the log does not record the whole
\* history of a behaviour.
LogWindow == 1
\* fetch promises that may be pending at once.
MaxOutstanding == 2

(***************************************************************************)
(* Values.                                                                 *)
(***************************************************************************)
\* JavaScript null / undefined for objects (a draft, a reply body).
Null == [null |-> TRUE]
\* No pure function is being studied.
NoCall == [fn |-> "none"]
\* An absent string field.
Undefined == "undefined"
\* JavaScript truthiness of a string-or-absent value.
Truthy(s) == s # Undefined /\ s # ""

PendingConfirmation == "pending_confirmation"

\* STYLE_OPTIONS keys (two of the four).
STYLE_OPTIONS == {"formal", "casual"}

\* String.prototype.trim on the texts of the model.
Trim(s) == IF s = " " THEN "" ELSE s

ManualTexts == {"", " ", "send email"}

\* Drafts a collaborator may return.
DraftNew ==
    [status |-> PendingConfirmation, to |-> <<"bob@example.com">>, subject |-> "Update",
     raw_body |-> "a b", styled_body |-> Undefined, styles |-> <<>>]
DraftStyled ==
    [DraftNew EXCEPT !.styled_body = "a c", !.styles = <<"formal">>]
DraftOther ==
    [DraftNew EXCEPT !.subject = "Other", !.raw_body = "x y"]
DraftSent ==
    [DraftStyled EXCEPT !.status = "sent"]
DraftNoStatus ==
    [DraftStyled EXCEPT !.status = Undefined]
Drafts == {DraftNew, DraftStyled, DraftOther, DraftSent, DraftNoStatus}

\* A decoded reply body: JSON null, or an object seen through the five paths
\* the console probes.  result_email = resp.result.email, email = resp.email,
\* nested_email = resp.details.orchestrator.body.result.email,
\* va_transcript = resp.details.voice_agent.body.transcript,
\* transcript = resp.transcript.
Body(re, e, ne, vt, t) ==
    [result_email |-> re, email |-> e, nested_email |-> ne,
     va_transcript |-> vt, transcript |-> t]
EmptyBody == Body(Null, Null, Null, Undefined, Undefined)

TranscriptionBodies ==
    { Null, EmptyBody,
      Body(Null, Null, Null, "schedule", Undefined),
      Body(DraftNew, Null, Null, Undefined, "hello") }
RelayBodies ==
    { Null, EmptyBody,
      Body(DraftNew, Null, Null, Undefined, Undefined),
      Body(Null, Null, DraftOther, Undefined, Undefined),
      Body(Null, DraftSent, Null, Undefined, Undefined) }
StyleBodies ==
    { Null, EmptyBody } \cup { Body(Null, d, Null, Undefined, Undefined) : d \in Drafts }

\* What a fetch can end in: the promise rejects ("neterr"); it resolves to a
\* response whose body is not JSON, so resp.json() rejects ("nonjson"); or it
\* resolves to a response with a JSON body.  ok is Response.ok (status 2xx).
Response(type, ok, data) == [type |-> type, ok |-> ok, data |-> data]
NetErr == Response("neterr", FALSE, Null)
ResponsesOf(bodies) ==
    {NetErr} \cup { Response("nonjson", ok, Null) : ok \in BOOLEAN }
             \cup { Response("json", ok, b) : ok \in BOOLEAN, b \in bodies }
Responses(kind) ==
    CASE kind = "transcribe" -> ResponsesOf(TranscriptionBodies)
      [] kind = "style"      -> ResponsesOf(StyleBodies)
      [] OTHER               -> ResponsesOf(RelayBodies)

(***************************************************************************)
(* Pure functions of the console.                                          *)
(***************************************************************************)
\* An extractEmailDraft that probes the nested path first (a faulty
\* variant, for C29).
extractEmailDraftNestedFirst(resp) ==
    IF resp = Null THEN Null
    ELSE IF resp.nested_email # Null THEN resp.nested_email
    ELSE IF resp.result_email # Null THEN resp.result_email
    ELSE IF resp.email # Null THEN resp.email
    ELSE Null

\* An extractEmailDraft that probes the two direct paths only (a faulty
\* variant, for C15).
extractEmailDraftDirectOnly(resp) ==
    IF resp = Null THEN Null
    ELSE IF resp.result_email # Null THEN resp.result_email
    ELSE IF resp.email # Null THEN resp.email
    ELSE Null

\* extractEmailDraft (index.tsx:8-15): the first truthy of resp.result?.email,
\* resp.email, resp.details?.orchestrator?.body?.result?.email; else null.
extractEmailDraft(resp) ==
    IF resp = Null THEN Null
    ELSE IF resp.result_email # Null THEN resp.result_email
    ELSE IF resp.email # Null THEN resp.email
    ELSE IF resp.nested_email # Null THEN resp.nested_email
    ELSE Null

\* A transcript extraction that reads the top-level transcript first (a
\* faulty variant, for C30).
extractTranscriptTopFirst(data) ==
    IF Truthy(data.transcript) THEN data.transcript
    ELSE IF Truthy(data.va_transcript) THEN data.va_transcript
    ELSE ""

\* data.details?.voice_agent?.body?.transcript || data.transcript || ""
\* (index.tsx:151-152), for a non-null data.
extractTranscript(data) ==
    IF Truthy(data.va_transcript) THEN data.va_transcript
    ELSE IF Truthy(data.transcript) THEN data.transcript
    ELSE ""

\* draft?.status === "pending_confirmation" (index.tsx:158, 179, 209, 236).
IsPendingConfirmation(draft) ==
    draft # Null /\ draft.status = PendingConfirmation

(***************************************************************************)
(* diffTokens (index.tsx:63-86).  A text is a sequence of symbols: one     *)
(* whitespace character, or a run of other characters ("a", "b", "1",      *)
(* "constructor").  A token is the sequence of the symbols between two     *)
(* runs of whitespace, so <<"a", "b">> is the token ab.                    *)
(***************************************************************************)
Whitespace == {" "}
Digits == {"1"}
Symbols == Whitespace \cup Digits \cup {"a", "b", "constructor"}

\* raw.split(/\s+/): the pieces between runs of whitespace, the empty
\* pieces before a leading and after a trailing run included.
RECURSIVE SplitFrom(_, _, _)
SplitFrom(text, k, piece) ==
    IF k > Len(text) THEN <<piece>>
    ELSE IF text[k] \in Whitespace
         THEN IF k > 1 /\ text[k - 1] \in Whitespace
              THEN SplitFrom(text, k + 1, piece)
              ELSE <<piece>> \o SplitFrom(text, k + 1, <<>>)
         ELSE SplitFrom(text, k + 1, Append(piece, text[k]))
split(text) == SplitFrom(text, 1, <<>>)

\* .filter(Boolean): the empty string is the only falsy piece.
NonEmpty(piece) == piece # <<>>
Tokens(text) == SelectSeq(split(text), NonEmpty)

\* The values a property of rawCounts can hold.  rawCounts is a plain
\* object ({}), so reading a key it does not own goes to Object.prototype:
\* for the token constructor it yields the function Object, for any other
\* token of the model undefined.  Str(n) is the source text of that
\* function followed by n digits 1, which is what function + 1 gives.
Num(n) == [t |-> "number", n |-> n]
NaN == [t |-> "NaN", n |-> 0]
Str(n) == [t |-> "string", n |-> n]
Function == [t |-> "function", n |-> 0]
UndefinedValue == [t |-> "undefined", n |-> 0]
InheritedKeys == {<<"constructor">>}

\* rawCounts: its own keys in order of creation, and their values.
EmptyObject == [keys |-> <<>>, val |-> <<>>]
Range(seq) == { seq[k] : k \in DOMAIN seq }
Owns(obj, key) == key \in Range(obj.keys)
PositionOf(obj, key) == CHOOSE k \in DOMAIN obj.keys : obj.keys[k] = key
\* rawCounts[t]
Get(obj, key) ==
    IF Owns(obj, key) THEN obj.val[PositionOf(obj, key)]
    ELSE IF key \in InheritedKeys THEN Function
    ELSE UndefinedValue
\* rawCounts[t] = v
Put(obj, key, v) ==
    IF Owns(obj, key)
    THEN [obj EXCEPT !.val[PositionOf(obj, key)] = v]
    ELSE [keys |-> Append(obj.keys, key), val |-> Append(obj.val, v)]

\* if (v), v || 0
TruthyValue(v) == v.t \in {"function", "string"} \/ (v.t = "number" /\ v.n # 0)
\* (v || 0) + 1
OrZeroPlusOne(v) ==
    IF ~TruthyValue(v) THEN Num(1)
    ELSE IF v.t = "number" THEN Num(v.n + 1)
    ELSE IF v.t = "function" THEN Str(1)
    ELSE Str(v.n + 1)
\* v - 1, for a truthy v
MinusOne(v) == IF v.t = "number" THEN Num(v.n - 1) ELSE NaN

\* rawTokens.forEach((t) => (rawCounts[t] = (rawCounts[t] || 0) + 1))
RECURSIVE CountFrom(_, _, _)
CountFrom(rawTokens, k, rawCounts) ==
    IF k > Len(rawTokens) THEN rawCounts
    ELSE LET t == rawTokens[k]
         IN CountFrom(rawTokens, k + 1, Put(rawCounts, t, OrZeroPlusOne(Get(rawCounts, t))))

\* styledTokens.forEach: a truthy count is decremented and the token pushed
\* plain; otherwise the token is pushed with className "token-added".
RECURSIVE WalkFrom(_, _, _, _)
WalkFrom(styledTokens, k, rawCounts, nodes) ==
    IF k > Len(styledTokens) THEN [rawCounts |-> rawCounts, nodes |-> nodes]
    ELSE LET t == styledTokens[k]
             v == Get(rawCounts, t)
         IN IF TruthyValue(v)
            THEN WalkFrom(styledTokens, k + 1, Put(rawCounts, t, MinusOne(v)),
                          Append(nodes, [text |-> t, added |-> FALSE]))
            ELSE WalkFrom(styledTokens, k + 1, rawCounts,
                          Append(nodes, [text |-> t, added |-> TRUE]))

\* Object.entries lists the own keys that are array indices in ascending
\* numeric order and then the other keys in order of creation.
IsIndex(key) == key # <<>> /\ \A k \in DOMAIN key : key[k] \in Digits
RECURSIVE IndexValue(_)
IndexValue(key) ==
    IF key = <<>> THEN 0
    ELSE 10 * IndexValue(SubSeq(key, 1, Len(key) - 1)) + 1
RECURSIVE Ascending(_)
Ascending(keys) ==
    IF keys = {} THEN <<>>
    ELSE LET least == CHOOSE x \in keys : \A y \in keys : IndexValue(x) <= IndexValue(y)
         IN <<least>> \o Ascending(keys \ {least})
NotIndex(key) == ~IsIndex(key)
ownKeys(obj) ==
    Ascending({ key \in Range(obj.keys) : IsIndex(key) }) \o SelectSeq(obj.keys, NotIndex)

\* for (let i = 0; i < cnt; i++) removed.push(tok): i < cnt is false at once
\* for a cnt that is NaN or a string that is not numeric.
RECURSIVE Repeat(_, _)
Repeat(tok, n) == IF n <= 0 THEN <<>> ELSE <<tok>> \o Repeat(tok, n - 1)
Copies(cnt) == IF cnt.t = "number" THEN cnt.n ELSE 0
RECURSIVE RemovedFrom(_, _, _)
RemovedFrom(rawCounts, keys, k) ==
    IF k > Len(keys) THEN <<>>
    ELSE Repeat(keys[k], Copies(Get(rawCounts, keys[k]))) \o RemovedFrom(rawCounts, keys, k + 1)

diffTokens(raw, styled) ==
    LET rawTokens == Tokens(raw)
        styledTokens == Tokens(styled)
        walked == WalkFrom(styledTokens, 1, CountFrom(rawTokens, 1, EmptyObject), <<>>)
    IN [nodes |-> walked.nodes,
        removed |-> RemovedFrom(walked.rawCounts, ownKeys(walked.rawCounts), 1)]

\* Entries of the old log kept by an append in the console: l.slice(0, 199).
LogKeep == 199

\* l.slice(0, n)
Slice(l, n) == SubSeq(l, 1, IF Len(l) < n THEN Len(l) ELSE n)

\* A log that keeps one old entry too many (a faulty variant, for C25).
logKeepingOneMore(m, l) == <<m>> \o Slice(l, logKeep + 1)

\* log (index.tsx:49-53): the new entry first, then the first logKeep old
\* ones.  An entry is modelled by its message, without the time prefix and
\* the payload.
log(m, l) == <<m>> \o Slice(l, logKeep)

(***************************************************************************)
(* What the render offers (index.tsx:272-475).                             *)
(***************************************************************************)
\* {!recording && <button onClick={startRecording}>}      index.tsx:294-298
StartOffered == ~recording
\* {recording && <button onClick={stopRecording}>}        index.tsx:299-303
StopOffered == recording
\* A Transcribe button that forgets inFlight (a faulty variant, for C3).
TranscribeDisabledIgnoringBusy == audioBlob = 0
\* disabled={!audioBlob || inFlight}                       index.tsx:304
TranscribeDisabled == audioBlob = 0 \/ inFlight
\* disabled={!transcript || inFlight}                      index.tsx:307
ForwardDisabled == ~Truthy(transcript) \/ inFlight
\* disabled={!manualText || inFlight}                      index.tsx:320
SubmitDisabled == ~Truthy(manualText) \/ inFlight
\* The draft controls rendered unconditionally.
DraftControlsAlwaysRendered == TRUE
\* {pendingEmail && (<> style chips, Apply, Send, Cancel </>)}  index.tsx:325
DraftControlsRendered == pendingEmail # Null
\* disabled={inFlight} on the chips, Apply, Send and Cancel     index.tsx:334-359
DraftControlsDisabled == inFlight
\* The send, cancel and style controls can be used.
DraftControlsOffered == DraftControlsRendered /\ ~DraftControlsDisabled
\* pendingEmail?.status === "pending_confirmation" ? preview : placeholder  index.tsx:384
PreviewShown == IsPendingConfirmation(pendingEmail)
\* The Show/Hide Diff button (index.tsx:403-413).
DiffToggleOffered ==
    /\ PreviewShown
    /\ Truthy(pendingEmail.raw_body)
    /\ Truthy(pendingEmail.styled_body)
    /\ Trim(pendingEmail.raw_body) # Trim(pendingEmail.styled_body)

\* The render calls diffTokens on the bodies of the pending draft
\* (index.tsx:264-270).
DiffComputed ==
    /\ pendingEmail # Null
    /\ Truthy(pendingEmail.raw_body)
    /\ Truthy(pendingEmail.styled_body)
    /\ showDiff

\* {!showDiff && (<pre>{styled_body || raw_body}</pre>)}  index.tsx:415-419
PlainBodyShown == PreviewShown /\ ~showDiff
\* {showDiff && diff && (<pre> diff nodes, removed </pre>)}  index.tsx:420-434
DiffShown == PreviewShown /\ showDiff /\ DiffComputed

(***************************************************************************)
(* Requests.                                                               *)
(***************************************************************************)
\* The session fields a handler or a reply can change, as a handler finds
\* them when it starts.
Snapshot ==
    [transcript |-> transcript, originalTranscript |-> originalTranscript,
     confirmedResult |-> confirmedResult, pendingEmail |-> pendingEmail,
     draftStyle |-> draftStyle, audioBlob |-> audioBlob]

\* A fetch in flight: which handler issued it, the text and audio it carries,
\* and the session as the handler found it.
Request(kind, text, audio) ==
    [kind |-> kind, text |-> text, audio |-> audio, pre |-> Snapshot]

RemoveAt(s, i) == SubSeq(s, 1, i - 1) \o SubSeq(s, i + 1, Len(s))

\* The fetch of a handler: one more pending promise.
Fetch(kind, text, audio) ==
    /\ Len(outstanding) < MaxOutstanding
    /\ outstanding' = Append(outstanding, Request(kind, text, audio))

\* The promise of request i settles and its handler resumes.
Settles(i, kind) ==
    /\ i \in 1..Len(outstanding)
    /\ outstanding[i].kind = kind
    /\ outstanding' = RemoveAt(outstanding, i)

\* await fetch(...) or await resp.json() throws.
Rejects(resp) == resp.type # "json"

(***************************************************************************)
(* Capture: startRecording, stopRecording and the recorder's stop event.   *)
(***************************************************************************)
\* Recorder ids are handed out in order.
Created == { h \in 1..MaxCaptures : recorders[h] # "none" }

\* Click on Start: startRecording up to await getUserMedia (index.tsx:88-90).
StartRecording ==
    /\ StartOffered
    /\ Cardinality(Created) + acquiring < MaxCaptures
    /\ acquiring' = acquiring + 1
    /\ UNCHANGED <<recording, mediaRecorder, audioBlob, recorders, logKeep, call, transcript,
                   originalTranscript, manualText, confirmedResult, pendingEmail,
                   draftStyle, showDiff, inFlight, logs, outstanding>>

\* A startRecording that drops the audio of the previous capture as soon as
\* the new recorder starts (a faulty variant, for C21).
GetUserMediaResolvesDiscarding ==
    /\ acquiring > 0
    /\ LET mr == Cardinality(Created) + 1 IN
        /\ mr \in 1..MaxCaptures
        /\ recorders' = [recorders EXCEPT ![mr] = "recording"]
        /\ mediaRecorder' = mr
    /\ acquiring' = acquiring - 1
    /\ recording' = TRUE
    /\ audioBlob' = 0
    /\ logs' = log("Recording...", logs)
    /\ UNCHANGED <<logKeep, call, transcript, originalTranscript, manualText,
                   confirmedResult, pendingEmail, draftStyle, showDiff, inFlight,
                   outstanding>>

\* getUserMedia resolves: a new recorder is started and becomes the handle
\* (index.tsx:91-106).
GetUserMediaResolves ==
    /\ acquiring > 0
    /\ LET mr == Cardinality(Created) + 1 IN
        /\ mr \in 1..MaxCaptures
        /\ recorders' = [recorders EXCEPT ![mr] = "recording"]
        /\ mediaRecorder' = mr
    /\ acquiring' = acquiring - 1
    /\ recording' = TRUE
    /\ logs' = log("Recording...", logs)
    /\ UNCHANGED <<audioBlob, logKeep, call, transcript, originalTranscript, manualText,
                   confirmedResult, pendingEmail, draftStyle, showDiff, inFlight,
                   outstanding>>

\* A startRecording with an empty catch block (a faulty variant, for C26).
GetUserMediaRejectsSilently ==
    /\ acquiring > 0
    /\ acquiring' = acquiring - 1
    /\ UNCHANGED <<recording, mediaRecorder, audioBlob, recorders, logKeep, call, transcript,
                   originalTranscript, manualText, confirmedResult, pendingEmail,
                   draftStyle, showDiff, inFlight, logs, outstanding>>

\* getUserMedia rejects (device denied or missing): the catch (index.tsx:107-109).
GetUserMediaRejects ==
    /\ acquiring > 0
    /\ acquiring' = acquiring - 1
    /\ logs' = log("Failed to start recording", logs)
    /\ UNCHANGED <<recording, mediaRecorder, audioBlob, recorders, logKeep, call, transcript,
                   originalTranscript, manualText, confirmedResult, pendingEmail,
                   draftStyle, showDiff, inFlight, outstanding>>

\* A stopRecording that logs before looking at the handle (a faulty
\* variant, for C33).
stopRecordingLoggingFirst ==
    IF mediaRecorder = 0
    THEN /\ logs' = log("Stopped recording", logs)
         /\ UNCHANGED <<capture, transcript, originalTranscript, manualText,
                        confirmedResult, pendingEmail, draftStyle, showDiff,
                        inFlight, outstanding>>
    ELSE /\ recorders' = [recorders EXCEPT ![mediaRecorder] = "stopping"]
         /\ recording' = FALSE
         /\ mediaRecorder' = 0
         /\ logs' = log("Stopped recording", logs)
         /\ UNCHANGED <<audioBlob, acquiring, logKeep, call, transcript, originalTranscript,
                        manualText, confirmedResult, pendingEmail, draftStyle,
                        showDiff, inFlight, outstanding>>

\* stopRecording (index.tsx:112-119).  mediaRecorder.stop() queues the
\* recorder's stop event.
stopRecording ==
    IF mediaRecorder = 0
    THEN UNCHANGED vars
    ELSE /\ recorders' = [recorders EXCEPT ![mediaRecorder] = "stopping"]
         /\ recording' = FALSE
         /\ mediaRecorder' = 0
         /\ logs' = log("Stopped recording", logs)
         /\ UNCHANGED <<audioBlob, acquiring, logKeep, call, transcript, originalTranscript,
                        manualText, confirmedResult, pendingEmail, draftStyle,
                        showDiff, inFlight, outstanding>>

\* Click on Stop (index.tsx:299-303).
StopRecording ==
    /\ StopOffered
    /\ stopRecording

\* mr.onstop (index.tsx:96-102): the chunks become the captured audio.
OnStop(mr) ==
    /\ recorders[mr] = "stopping"
    /\ recorders' = [recorders EXCEPT ![mr] = "inactive"]
    /\ audioBlob' = mr
    /\ logs' = log("Captured audio", logs)
    /\ UNCHANGED <<recording, mediaRecorder, acquiring, logKeep, call, transcript,
                   originalTranscript, manualText, confirmedResult, pendingEmail,
                   draftStyle, showDiff, inFlight, outstanding>>

(***************************************************************************)
(* transcribeOnly (index.tsx:132-164).                                     *)
(***************************************************************************)
\* A transcribeOnly that forgets setPendingEmail(null) before the request
\* (a faulty variant, for C11).
TranscribeOnlyKeepingDraft ==
    /\ ~TranscribeDisabled
    /\ audioBlob # 0
    /\ inFlight' = TRUE
    /\ transcript' = ""
    /\ originalTranscript' = ""
    /\ confirmedResult' = Null
    /\ logs' = log("Uploading audio for transcription", logs)
    /\ Fetch("transcribe", "", audioBlob)
    /\ UNCHANGED <<capture, manualText, pendingEmail, draftStyle, showDiff>>

\* Click on Transcribe: the handler up to await fetch.
TranscribeOnly ==
    /\ ~TranscribeDisabled
    /\ audioBlob # 0
    /\ inFlight' = TRUE
    /\ transcript' = ""
    /\ originalTranscript' = ""
    /\ confirmedResult' = Null
    /\ pendingEmail' = Null
    /\ logs' = log("Uploading audio for transcription", logs)
    /\ Fetch("transcribe", "", audioBlob)
    /\ UNCHANGED <<capture, manualText, draftStyle, showDiff>>

\* The reply decodes and the try block runs to its end.  A JSON null reply
\* is stored and then throws at data.details, so it is not this case.
\* A reply handler that stores the transcript and leaves originalTranscript
\* alone (a faulty variant, for C36).
TranscribeSucceedsLeavingOriginal(i, resp) ==
    /\ Settles(i, "transcribe")
    /\ ~Rejects(resp) /\ resp.data # Null
    /\ LET data == resp.data
           tx == extractTranscript(data)
           draft == extractEmailDraft(data)
       IN /\ confirmedResult' = data
          /\ transcript' = IF Truthy(tx) THEN tx ELSE transcript
          /\ pendingEmail' = IF IsPendingConfirmation(draft) THEN draft ELSE pendingEmail
    /\ inFlight' = FALSE
    /\ UNCHANGED <<capture, originalTranscript, manualText, draftStyle, showDiff, logs>>
TranscribeSucceeds(i, resp) ==
    /\ Settles(i, "transcribe")
    /\ ~Rejects(resp) /\ resp.data # Null
    /\ LET data == resp.data
           tx == extractTranscript(data)
           draft == extractEmailDraft(data)
       IN /\ confirmedResult' = data
          /\ transcript' = IF Truthy(tx) THEN tx ELSE transcript
          /\ originalTranscript' = IF Truthy(tx) THEN tx ELSE originalTranscript
          /\ pendingEmail' = IF IsPendingConfirmation(draft) THEN draft ELSE pendingEmail
    /\ inFlight' = FALSE
    /\ UNCHANGED <<capture, manualText, draftStyle, showDiff, logs>>

\* A transcribeOnly with an empty catch block (a faulty variant, for C23).
TranscribeFailsUnlogged(i, resp) ==
    /\ Settles(i, "transcribe")
    /\ Rejects(resp) \/ resp.data = Null
    /\ confirmedResult' = IF Rejects(resp) THEN confirmedResult ELSE resp.data
    /\ inFlight' = FALSE
    /\ UNCHANGED <<capture, transcript, originalTranscript, manualText,
                   pendingEmail, draftStyle, showDiff, logs>>

\* fetch or resp.json() rejects, or the reply is JSON null: catch and finally.
TranscribeFails(i, resp) ==
    /\ Settles(i, "transcribe")
    /\ Rejects(resp) \/ resp.data = Null
    /\ confirmedResult' = IF Rejects(resp) THEN confirmedResult ELSE resp.data
    /\ logs' = log("Transcription failed", logs)
    /\ inFlight' = FALSE
    /\ UNCHANGED <<capture, transcript, originalTranscript, manualText,
                   pendingEmail, draftStyle, showDiff>>

(***************************************************************************)
(* confirmForward (index.tsx:166-186).                                     *)
(***************************************************************************)
\* A confirmForward that clears the transcript before the request, the way
\* transcribeOnly does (a faulty variant, for C7).
ConfirmForwardClearing ==
    /\ ~ForwardDisabled
    /\ Truthy(transcript)
    /\ inFlight' = TRUE
    /\ transcript' = ""
    /\ logs' = log("Forwarding transcript to orchestrator", logs)
    /\ Fetch("forward", transcript, 0)
    /\ UNCHANGED <<capture, originalTranscript, manualText,
                   confirmedResult, pendingEmail, draftStyle, showDiff>>

ConfirmForward ==
    /\ ~ForwardDisabled
    /\ Truthy(transcript)
    /\ inFlight' = TRUE
    /\ logs' = log("Forwarding transcript to orchestrator", logs)
    /\ Fetch("forward", transcript, 0)
    /\ UNCHANGED <<capture, transcript, originalTranscript, manualText,
                   confirmedResult, pendingEmail, draftStyle, showDiff>>

ForwardSucceeds(i, resp) ==
    /\ Settles(i, "forward")
    /\ ~Rejects(resp)
    /\ LET data == resp.data
           draft == extractEmailDraft(data)
       IN /\ confirmedResult' = data
          /\ pendingEmail' = IF IsPendingConfirmation(draft) THEN draft ELSE pendingEmail
    /\ logs' = log("Forward result", logs)
    /\ inFlight' = FALSE
    /\ UNCHANGED <<capture, transcript, originalTranscript, manualText,
                   draftStyle, showDiff>>

\* A confirmForward whose setInFlight(false) sits at the end of the try
\* block instead of in a finally (a faulty variant, for C22).
ForwardFailsStayingBusy(i, resp) ==
    /\ Settles(i, "forward")
    /\ Rejects(resp)
    /\ logs' = log("Forward failed", logs)
    /\ UNCHANGED <<capture, transcript, originalTranscript, manualText,
                   confirmedResult, pendingEmail, draftStyle, showDiff, inFlight>>

ForwardFails(i, resp) ==
    /\ Settles(i, "forward")
    /\ Rejects(resp)
    /\ logs' = log("Forward failed", logs)
    /\ inFlight' = FALSE
    /\ UNCHANGED <<capture, transcript, originalTranscript, manualText,
                   confirmedResult, pendingEmail, draftStyle, showDiff>>

(***************************************************************************)
(* submitManual (index.tsx:188-216).                                       *)
(***************************************************************************)
SubmitManual ==
    /\ ~SubmitDisabled
    /\ IF Trim(manualText) = ""
       THEN UNCHANGED vars
       ELSE /\ inFlight' = TRUE
            /\ confirmedResult' = Null
            /\ logs' = log("Sending manual text via msg-proxy", logs)
            /\ Fetch("manual", manualText, 0)
            /\ UNCHANGED <<capture, transcript, originalTranscript, manualText,
                           pendingEmail, draftStyle, showDiff>>

ManualSucceeds(i, resp) ==
    /\ Settles(i, "manual")
    /\ ~Rejects(resp)
    /\ LET data == resp.data
           draft == extractEmailDraft(data)
       IN /\ confirmedResult' = data
          /\ pendingEmail' = IF IsPendingConfirmation(draft) THEN draft ELSE pendingEmail
    /\ logs' = log("Manual submit result", logs)
    /\ inFlight' = FALSE
    /\ UNCHANGED <<capture, transcript, originalTranscript, manualText,
                   draftStyle, showDiff>>

ManualFails(i, resp) ==
    /\ Settles(i, "manual")
    /\ Rejects(resp)
    /\ logs' = log("Manual submit failed", logs)
    /\ inFlight' = FALSE
    /\ UNCHANGED <<capture, transcript, originalTranscript, manualText,
                   confirmedResult, pendingEmail, draftStyle, showDiff>>

(***************************************************************************)
(* sendEmailConfirmation (index.tsx:218-244).                              *)
(***************************************************************************)
\* Click on Send (confirm) or Cancel (~confirm).
SendEmailConfirmation(confirm) ==
    /\ DraftControlsOffered
    /\ inFlight' = TRUE
    /\ Fetch("decide", IF confirm THEN "yes" ELSE "no", 0)
    /\ UNCHANGED <<capture, transcript, originalTranscript, manualText,
                   confirmedResult, pendingEmail, draftStyle, showDiff, logs>>

\* A reply handler of sendEmailConfirmation that clears the draft on a
\* confirmation before it looks at the reply (a faulty variant, for C12).
ConfirmationSucceedsClearingFirst(i, resp) ==
    /\ Settles(i, "decide")
    /\ ~Rejects(resp)
    /\ LET data == resp.data
           draft == extractEmailDraft(data)
           confirm == outstanding[i].text = "yes"
       IN /\ confirmedResult' = data
          /\ pendingEmail' = IF confirm THEN Null
                             ELSE IF IsPendingConfirmation(draft) THEN draft
                             ELSE pendingEmail
    /\ logs' = log("Email confirmation result", logs)
    /\ inFlight' = FALSE
    /\ UNCHANGED <<capture, transcript, originalTranscript, manualText,
                   draftStyle, showDiff>>

\* A reply handler of sendEmailConfirmation without the else branch, so a
\* confirmation never clears the draft (a faulty variant, for C13).
ConfirmationSucceedsNeverClearing(i, resp) ==
    /\ Settles(i, "decide")
    /\ ~Rejects(resp)
    /\ LET data == resp.data
           draft == extractEmailDraft(data)
       IN /\ confirmedResult' = data
          /\ pendingEmail' = IF IsPendingConfirmation(draft) THEN draft
                             ELSE pendingEmail
    /\ logs' = log("Email confirmation result", logs)
    /\ inFlight' = FALSE
    /\ UNCHANGED <<capture, transcript, originalTranscript, manualText,
                   draftStyle, showDiff>>

ConfirmationSucceeds(i, resp) ==
    /\ Settles(i, "decide")
    /\ ~Rejects(resp)
    /\ LET data == resp.data
           draft == extractEmailDraft(data)
           confirm == outstanding[i].text = "yes"
       IN /\ confirmedResult' = data
          /\ pendingEmail' = IF IsPendingConfirmation(draft) THEN draft
                             ELSE IF confirm THEN Null
                             ELSE pendingEmail
    /\ logs' = log("Email confirmation result", logs)
    /\ inFlight' = FALSE
    /\ UNCHANGED <<capture, transcript, originalTranscript, manualText,
                   draftStyle, showDiff>>

ConfirmationFails(i, resp) ==
    /\ Settles(i, "decide")
    /\ Rejects(resp)
    /\ logs' = log("Email confirmation failed", logs)
    /\ inFlight' = FALSE
    /\ UNCHANGED <<capture, transcript, originalTranscript, manualText,
                   confirmedResult, pendingEmail, draftStyle, showDiff>>

(***************************************************************************)
(* applyStyle (index.tsx:246-262).                                         *)
(***************************************************************************)
ApplyStyle ==
    /\ DraftControlsOffered
    /\ pendingEmail # Null
    /\ inFlight' = TRUE
    /\ Fetch("style", draftStyle, 0)
    /\ UNCHANGED <<capture, transcript, originalTranscript, manualText,
                   confirmedResult, pendingEmail, draftStyle, showDiff, logs>>

\* An applyStyle that takes a reply whose styled body is the one already
\* shown as "no change" and drops the styled body (a faulty variant, for C27).
StyleSucceedsDroppingRepeat(i, resp) ==
    /\ Settles(i, "style")
    /\ ~Rejects(resp) /\ resp.data # Null
    /\ pendingEmail' =
         IF resp.data.email = Null THEN pendingEmail
         ELSE IF resp.data.email.styled_body = pendingEmail.styled_body
              THEN [resp.data.email EXCEPT !.styled_body = Undefined]
              ELSE resp.data.email
    /\ inFlight' = FALSE
    /\ UNCHANGED <<capture, transcript, originalTranscript, manualText,
                   confirmedResult, draftStyle, showDiff, logs>>

\* if (data.email) setPendingEmail(data.email)
StyleSucceeds(i, resp) ==
    /\ Settles(i, "style")
    /\ ~Rejects(resp) /\ resp.data # Null
    /\ pendingEmail' = IF resp.data.email # Null THEN resp.data.email ELSE pendingEmail
    /\ inFlight' = FALSE
    /\ UNCHANGED <<capture, transcript, originalTranscript, manualText,
                   confirmedResult, draftStyle, showDiff, logs>>

\* fetch or resp.json() rejects, or data is null and data.email throws.
StyleFails(i, resp) ==
    /\ Settles(i, "style")
    /\ Rejects(resp) \/ resp.data = Null
    /\ logs' = log("Apply style failed", logs)
    /\ inFlight' = FALSE
    /\ UNCHANGED <<capture, transcript, originalTranscript, manualText,
                   confirmedResult, pendingEmail, draftStyle, showDiff>>

(***************************************************************************)
(* Local edits: the manual textarea, the style chips, the diff toggle.     *)
(***************************************************************************)
\* onChange={(e) => setManualText(e.target.value)}        index.tsx:315
SetManualText(v) ==
    /\ v # manualText
    /\ manualText' = v
    /\ UNCHANGED <<capture, transcript, originalTranscript, confirmedResult,
                   pendingEmail, draftStyle, showDiff, inFlight, logs, outstanding>>

\* onClick={() => setDraftStyle(s.key)}                    index.tsx:335
SetDraftStyle(s) ==
    /\ DraftControlsOffered
    /\ s # draftStyle
    /\ draftStyle' = s
    /\ UNCHANGED <<capture, transcript, originalTranscript, manualText,
                   confirmedResult, pendingEmail, showDiff, inFlight, logs,
                   outstanding>>

\* A diff toggle that also writes to the log (a faulty variant, for C28).
ToggleDiffLogging ==
    /\ DiffToggleOffered
    /\ showDiff' = ~showDiff
    /\ logs' = log("Recording...", logs)
    /\ UNCHANGED <<capture, transcript, originalTranscript, manualText,
                   confirmedResult, pendingEmail, draftStyle, inFlight,
                   outstanding>>

\* onClick={() => setShowDiff((v) => !v)}                  index.tsx:409
ToggleDiff ==
    /\ DiffToggleOffered
    /\ showDiff' = ~showDiff
    /\ UNCHANGED <<capture, transcript, originalTranscript, manualText,
                   confirmedResult, pendingEmail, draftStyle, inFlight, logs,
                   outstanding>>

(***************************************************************************)
(* The steps of the console, grouped.                                      *)
(***************************************************************************)
\* The positions of the pending fetches.
Requests == 1..Len(outstanding)

\* The clicks that start a network handler.
Clicks ==
    \/ TranscribeOnly
    \/ ConfirmForward
    \/ SubmitManual
    \/ \E confirm \in BOOLEAN : SendEmailConfirmation(confirm)
    \/ ApplyStyle

\* The controls that issue no request.
Edits(texts) ==
    \/ \E v \in texts : SetManualText(v)
    \/ \E s \in STYLE_OPTIONS : SetDraftStyle(s)
    \/ ToggleDiff

Capture ==
    \/ StartRecording
    \/ GetUserMediaResolves
    \/ GetUserMediaRejects
    \/ StopRecording
    \/ \E mr \in 1..MaxCaptures : OnStop(mr)

(***************************************************************************)
(* Spec: the whole console from its construction, every handler running    *)
(* against collaborators with one reply of each kind.                      *)
(***************************************************************************)
\* The component as first rendered (index.tsx:26-47), keeping `keep` old
\* log entries per append.
\* The initial values of the console's state (useState, index.tsx:26-47).
InitialState(keep) ==
    /\ recording = FALSE
    /\ mediaRecorder = 0
    /\ audioBlob = 0
    /\ transcript = ""
    /\ originalTranscript = ""
    /\ manualText = ""
    /\ confirmedResult = Null
    /\ pendingEmail = Null
    /\ draftStyle = "formal"
    /\ showDiff = FALSE
    /\ inFlight = FALSE
    /\ logs = <<>>
    /\ logKeep = keep
    /\ acquiring = 0
    /\ recorders = [h \in 1..MaxCaptures |-> "none"]
    /\ outstanding = <<>>

Constructed(keep) == InitialState(keep) /\ call = NoCall

Init == Constructed(LogWindow)

ConsoleResponses(kind) ==
    {NetErr} \cup
    CASE kind = "transcribe" ->
           { Response("json", TRUE, Body(DraftNew, Null, Null, Undefined, "hello")) }
      [] kind = "style" ->
           { Response("json", TRUE, Body(Null, DraftStyled, Null, Undefined, Undefined)) }
      [] OTHER ->
           { Response("json", TRUE, EmptyBody) }

ConsoleTexts == {"", "send email"}

Next ==
    \/ Capture
    \/ Clicks
    \/ \E i \in Requests, resp \in ConsoleResponses("transcribe") : TranscribeSucceeds(i, resp)
    \/ \E i \in Requests, resp \in ConsoleResponses("transcribe") : TranscribeFails(i, resp)
    \/ \E i \in Requests, resp \in ConsoleResponses("forward") : ForwardSucceeds(i, resp)
    \/ \E i \in Requests, resp \in ConsoleResponses("forward") : ForwardFails(i, resp)
    \/ \E i \in Requests, resp \in ConsoleResponses("manual") : ManualSucceeds(i, resp)
    \/ \E i \in Requests, resp \in ConsoleResponses("manual") : ManualFails(i, resp)
    \/ \E i \in Requests, resp \in ConsoleResponses("decide") : ConfirmationSucceeds(i, resp)
    \/ \E i \in Requests, resp \in ConsoleResponses("decide") : ConfirmationFails(i, resp)
    \/ \E i \in Requests, resp \in ConsoleResponses("style") : StyleSucceeds(i, resp)
    \/ \E i \in Requests, resp \in ConsoleResponses("style") : StyleFails(i, resp)
    \/ Edits(ConsoleTexts)

Spec == Init /\ [][Next]_vars

(***************************************************************************)
(* SpecSession: the network handlers and the local edits against every     *)
(* reply of Responses, from the console after a first capture has ended.   *)
(***************************************************************************)
\* Start, Stop and the recorder's stop event have run once.
AfterCapture(keep) ==
    /\ recording = FALSE
    /\ mediaRecorder = 0
    /\ audioBlob = 1
    /\ transcript = ""
    /\ originalTranscript = ""
    /\ manualText = ""
    /\ confirmedResult = Null
    /\ pendingEmail = Null
    /\ draftStyle = "formal"
    /\ showDiff = FALSE
    /\ inFlight = FALSE
    /\ logKeep = keep
    /\ logs = Slice(<<"Captured audio", "Stopped recording", "Recording...">>, keep + 1)
    /\ acquiring = 0
    /\ recorders = [h \in 1..MaxCaptures |-> IF h = 1 THEN "inactive" ELSE "none"]
    /\ outstanding = <<>>
    /\ call = NoCall

InitSession == AfterCapture(LogWindow)

NextSession ==
    \/ Clicks
    \/ \E i \in Requests, resp \in Responses("transcribe") : TranscribeSucceeds(i, resp)
    \/ \E i \in Requests, resp \in Responses("transcribe") : TranscribeFails(i, resp)
    \/ \E i \in Requests, resp \in Responses("forward") : ForwardSucceeds(i, resp)
    \/ \E i \in Requests, resp \in Responses("forward") : ForwardFails(i, resp)
    \/ \E i \in Requests, resp \in Responses("manual") : ManualSucceeds(i, resp)
    \/ \E i \in Requests, resp \in Responses("manual") : ManualFails(i, resp)
    \/ \E i \in Requests, resp \in Responses("decide") : ConfirmationSucceeds(i, resp)
    \/ \E i \in Requests, resp \in Responses("decide") : ConfirmationFails(i, resp)
    \/ \E i \in Requests, resp \in Responses("style") : StyleSucceeds(i, resp)
    \/ \E i \in Requests, resp \in Responses("style") : StyleFails(i, resp)
    \/ Edits(ManualTexts)

SpecSession == InitSession /\ [][NextSession]_vars

(***************************************************************************)
(* The log at its capacity: the console keeps LogKeep old entries, as the  *)
(* code does, and captures are made on top of a log left by failed manual  *)
(* submissions, which change nothing but the log.                          *)
(***************************************************************************)
\* The log after n / 2 failed submissions of the manual text, newest first.
ManualFailuresLog(n) ==
    [k \in 1..n |-> IF (n - k) % 2 = 0 THEN "Sending manual text via msg-proxy"
                    ELSE "Manual submit failed"]
\* Lengths of the log before the captures: empty, and at or just under
\* the capacity.
LogLengths == {0, LogKeep - 3, LogKeep - 1, LogKeep + 1}

InitLog ==
    \E n \in LogLengths :
        /\ recording = FALSE
        /\ mediaRecorder = 0
        /\ audioBlob = 0
        /\ transcript = ""
        /\ originalTranscript = ""
        /\ manualText = IF n = 0 THEN "" ELSE "send email"
        /\ confirmedResult = Null
        /\ pendingEmail = Null
        /\ draftStyle = "formal"
        /\ showDiff = FALSE
        /\ inFlight = FALSE
        /\ logs = ManualFailuresLog(n)
        /\ logKeep = LogKeep
        /\ acquiring = 0
        /\ recorders = [h \in 1..MaxCaptures |-> "none"]
        /\ outstanding = <<>>
        /\ call = NoCall

\* Captures with the device granted (a refused getUserMedia could be
\* repeated without end, each time adding an entry), and edits of the
\* manual text, which log nothing.
NextLog ==
    \/ StartRecording
    \/ GetUserMediaResolves
    \/ StopRecording
    \/ \E mr \in 1..MaxCaptures : OnStop(mr)
    \/ \E v \in ManualTexts : SetManualText(v)

SpecLog == InitLog /\ [][NextLog]_vars

(***************************************************************************)
(* The console when every request completes: each fetch promise settles,   *)
(* and the continuation of the handler that awaits it then runs.           *)
(***************************************************************************)
Settle ==
    \E i \in Requests : \E resp \in Responses(outstanding[i].kind) :
        \/ TranscribeSucceeds(i, resp) \/ TranscribeFails(i, resp)
        \/ ForwardSucceeds(i, resp) \/ ForwardFails(i, resp)
        \/ ManualSucceeds(i, resp) \/ ManualFails(i, resp)
        \/ ConfirmationSucceeds(i, resp) \/ ConfirmationFails(i, resp)
        \/ StyleSucceeds(i, resp) \/ StyleFails(i, resp)

SpecLive == Spec /\ WF_vars(Settle)

(***************************************************************************)
(* diffTokens on its own: one call on any two texts.                       *)
(***************************************************************************)
\* The longest text drawn, in symbols.
MaxTextLen == 3
\* diff("a a b", "a b b")
ExampleTexts == { <<"a", " ", "a", " ", "b">>, <<"a", " ", "b", " ", "b">> }
Texts == UNION { [1..n -> Symbols] : n \in 0..MaxTextLen } \cup ExampleTexts

CalledDiff(raw, styled) ==
    [fn |-> "diffTokens", raw |-> raw, styled |-> styled, returned |-> FALSE, value |-> Null]

DiffTokensReturns ==
    /\ call.fn = "diffTokens" /\ ~call.returned
    /\ call' = [call EXCEPT !.returned = TRUE, !.value = diffTokens(call.raw, call.styled)]
    /\ UNCHANGED console

InitDiff ==
    /\ InitialState(LogWindow)
    /\ call \in { CalledDiff(raw, styled) : raw \in Texts, styled \in Texts }

NextDiff == DiffTokensReturns

SpecDiff == InitDiff /\ [][NextDiff]_vars

(***************************************************************************)
(* extractEmailDraft, and the transcript extraction of transcribeOnly, on   *)
(* their own: one call on any reply body.                                  *)
(***************************************************************************)
\* The paths extractEmailDraft probes (index.tsx:10-12) and what a reply
\* body holds under each.
DraftPaths == {"result.email", "email", "details.orchestrator.body.result.email"}
At(resp, path) ==
    CASE path = "result.email" -> resp.result_email
      [] path = "email"        -> resp.email
      [] OTHER                 -> resp.nested_email

\* Reply bodies: null, and every filling of the three draft paths and the
\* two transcript paths.
TranscriptValues == {Undefined, "", "hello", "schedule"}
NormalizerReplies ==
    {Null} \cup { Body(re, e, ne, vt, t) :
                    re \in Drafts \cup {Null}, e \in Drafts \cup {Null},
                    ne \in Drafts \cup {Null},
                    vt \in TranscriptValues, t \in TranscriptValues }

Called(fn, resp) == [fn |-> fn, resp |-> resp, returned |-> FALSE, value |-> Null]

ExtractEmailDraftReturns ==
    /\ call.fn = "extractEmailDraft" /\ ~call.returned
    /\ call' = [call EXCEPT !.returned = TRUE, !.value = extractEmailDraft(call.resp)]
    /\ UNCHANGED console

\* The transcript is read from a reply that is not null: on null the read
\* throws inside transcribeOnly.
ExtractTranscriptReturns ==
    /\ call.fn = "extractTranscript" /\ ~call.returned
    /\ call' = [call EXCEPT !.returned = TRUE, !.value = extractTranscript(call.resp)]
    /\ UNCHANGED console

InitNormalizer ==
    /\ InitialState(LogWindow)
    /\ call \in { Called("extractEmailDraft", b) : b \in NormalizerReplies }
              \cup { Called("extractTranscript", b) : b \in NormalizerReplies \ {Null} }

NextNormalizer ==
    \/ ExtractEmailDraftReturns
    \/ ExtractTranscriptReturns

SpecNormalizer == InitNormalizer /\ [][NextNormalizer]_vars

(***************************************************************************)
(* Properties.                                                             *)
(***************************************************************************)
\* The replies that are a transport failure: fetch or resp.json() rejects.
TransportFailures == { r \in Responses("forward") : Rejects(r) }

\* The draft the Normalizer finds in a reply is actionable.
YieldsDraft(data) == IsPendingConfirmation(extractEmailDraft(data))

\* The messages the catch blocks log.
FailureMessages ==
    {"Transcription failed", "Forward failed", "Manual submit failed",
     "Email confirmation failed", "Apply style failed",
     "Failed to start recording"}

\* C1: decide(false) whose reply arrives and carries no actionable draft
\* ends with no pending draft, whatever draft was held.
C1_CancelWithoutDraftClears ==
    [][\A i \in Requests : \A resp \in Responses("decide") :
         (/\ ConfirmationSucceeds(i, resp)
          /\ outstanding[i].text = "no"
          /\ ~YieldsDraft(resp.data))
         => pendingEmail' = Null]_vars

\* C2: a transcribe that fails by a transport error or an undecodable reply
\* leaves transcript, originalTranscript, pendingEmail, confirmedResult and
\* audioBlob as they were before the attempt, and inFlight false.
C2_FailedTranscribeKeepsSession ==
    [][\A i \in Requests : \A resp \in Responses("transcribe") :
         (TranscribeFails(i, resp) /\ Rejects(resp))
         => LET pre == outstanding[i].pre
            IN /\ transcript' = pre.transcript
               /\ originalTranscript' = pre.originalTranscript
               /\ pendingEmail' = pre.pendingEmail
               /\ confirmedResult' = pre.confirmedResult
               /\ audioBlob' = pre.audioBlob
               /\ inFlight' = FALSE]_vars

\* C3: at most one request is outstanding, inFlight is true whenever one
\* is, and while inFlight is true no click starts a network handler.
C3_BusyGate ==
    /\ Len(outstanding) <= 1
    /\ Len(outstanding) = 1 => inFlight
    /\ inFlight => ~ENABLED Clicks

\* C3 witness: a request is outstanding while audio, a transcript, a manual
\* text and a draft are all there to act on.
C3_BusyWithEverythingAtHand ==
    /\ inFlight /\ Len(outstanding) = 1
    /\ audioBlob # 0 /\ Truthy(transcript) /\ Truthy(manualText)
    /\ pendingEmail # Null

\* C4: the send, cancel and style controls are offered only for a draft
\* whose status is "pending_confirmation".
C4_ControlsOnlyForActionableDraft ==
    DraftControlsOffered => IsPendingConfirmation(pendingEmail)

\* C5: a successful applyStyle leaves the recipients, the subject, the raw
\* body and the status of the pending draft as they were.
C5_StyleKeepsDraftIdentity ==
    [][\A i \in Requests : \A resp \in Responses("style") :
         StyleSucceeds(i, resp)
         => /\ pendingEmail' # Null
            /\ pendingEmail'.to = pendingEmail.to
            /\ pendingEmail'.subject = pendingEmail.subject
            /\ pendingEmail'.raw_body = pendingEmail.raw_body
            /\ pendingEmail'.status = pendingEmail.status]_vars

\* C6: every recorder that is recording is the one mediaRecorder holds, so
\* a later stopRecording can stop it.
C6_EveryDeviceSessionHeld ==
    \A h \in 1..MaxCaptures : recorders[h] = "recording" => mediaRecorder = h

\* C7: a forward, applyStyle or decide that fails by a transport error
\* leaves transcript, originalTranscript, pendingEmail, confirmedResult and
\* draftStyle as they were before the attempt and inFlight false; neither
\* its first step nor its failure touches audioBlob; the failure adds one
\* entry above the old log.
C7_FailedAttemptKeepsSession ==
    [][/\ (ConfirmForward \/ ApplyStyle \/ \E c \in BOOLEAN : SendEmailConfirmation(c))
          => audioBlob' = audioBlob
       /\ \A i \in Requests : \A resp \in TransportFailures :
            (ForwardFails(i, resp) \/ StyleFails(i, resp) \/ ConfirmationFails(i, resp))
            => LET pre == outstanding[i].pre
               IN /\ transcript' = pre.transcript
                  /\ originalTranscript' = pre.originalTranscript
                  /\ pendingEmail' = pre.pendingEmail
                  /\ confirmedResult' = pre.confirmedResult
                  /\ draftStyle' = pre.draftStyle
                  /\ audioBlob' = audioBlob
                  /\ inFlight' = FALSE
                  /\ logs'[1] \in FailureMessages
                  /\ Tail(logs') = Slice(logs, logKeep)]_vars

\* C7 witness: a forward has just failed with a transcript, a draft and a
\* stored result in the session.
C7_ForwardFailedWithData ==
    /\ logs # <<>> /\ logs[1] = "Forward failed"
    /\ ~inFlight
    /\ Truthy(transcript) /\ pendingEmail # Null /\ confirmedResult # Null

\* C8: a submitManual that fails by a transport error leaves
\* confirmedResult, pendingEmail and transcript as they were before the
\* attempt, and does not touch manualText.
C8_FailedManualKeepsSession ==
    [][\A i \in Requests : \A resp \in TransportFailures :
         ManualFails(i, resp)
         => LET pre == outstanding[i].pre
            IN /\ confirmedResult' = pre.confirmedResult
               /\ pendingEmail' = pre.pendingEmail
               /\ transcript' = pre.transcript
               /\ manualText' = manualText]_vars

\* The reply `resp` to request i is handled, by whichever handler issued it.
Handles(i, resp) ==
    \/ TranscribeSucceeds(i, resp) \/ TranscribeFails(i, resp)
    \/ ForwardSucceeds(i, resp) \/ ForwardFails(i, resp)
    \/ ManualSucceeds(i, resp) \/ ManualFails(i, resp)
    \/ ConfirmationSucceeds(i, resp) \/ ConfirmationFails(i, resp)
    \/ StyleSucceeds(i, resp) \/ StyleFails(i, resp)

\* C9: a reply with a non-success HTTP status and a JSON body is handled as
\* a failure: a failure entry is logged, and confirmedResult, pendingEmail
\* and transcript stay as they are.
C9_HttpFailureIsFailure ==
    [][\A i \in Requests : \A resp \in Responses(outstanding[i].kind) :
         (resp.type = "json" /\ ~resp.ok /\ Handles(i, resp))
         => /\ logs' # <<>> /\ logs'[1] \in FailureMessages
            /\ confirmedResult' = confirmedResult
            /\ pendingEmail' = pendingEmail
            /\ transcript' = transcript]_vars

\* C10: after a successful forward or submitManual the pending draft is the
\* actionable draft of that reply, or absent when the reply has none.
C10_ReplyAloneDecidesDraft ==
    [][\A i \in Requests : \A resp \in Responses("forward") :
         (ForwardSucceeds(i, resp) \/ ManualSucceeds(i, resp))
         => pendingEmail' = IF YieldsDraft(resp.data)
                            THEN extractEmailDraft(resp.data)
                            ELSE Null]_vars

\* The transcript the console reads from a decoded reply: none from null.
TranscriptOf(data) == IF data = Null THEN "" ELSE extractTranscript(data)

\* C11: once the handler has finished with a decoded transcription reply,
\* transcript and originalTranscript are both the string read from the
\* reply ("" when it has none), confirmedResult is this reply, pendingEmail
\* is this reply's actionable draft or null, and inFlight is false.
C11_TranscribeStoresReplyOnly ==
    [][\A i \in Requests : \A resp \in Responses("transcribe") :
         (TranscribeSucceeds(i, resp) \/ (TranscribeFails(i, resp) /\ ~Rejects(resp)))
         => /\ transcript' = TranscriptOf(resp.data)
            /\ originalTranscript' = TranscriptOf(resp.data)
            /\ confirmedResult' = resp.data
            /\ pendingEmail' = IF YieldsDraft(resp.data)
                               THEN extractEmailDraft(resp.data) ELSE Null
            /\ inFlight' = FALSE]_vars

\* C11 witness: a transcription started after a manual command had been
\* answered has stored its transcript, and no draft is pending.
C11_TranscribedAfterManualResult ==
    /\ ~inFlight /\ Len(logs) >= 2
    /\ logs[1] = "Uploading audio for transcription"
    /\ logs[2] = "Manual submit result"
    /\ transcript = "schedule" /\ originalTranscript = "schedule"
    /\ confirmedResult = Body(Null, Null, Null, "schedule", Undefined)
    /\ pendingEmail = Null

\* C12: when the reply to sendEmailConfirmation, with confirm true or
\* false, carries an actionable draft, that draft becomes pendingEmail as
\* it is and the preview with its send, cancel and style controls is
\* offered again.
C12_DecisionReplyDraftReplaces ==
    [][\A i \in Requests : \A resp \in Responses("decide") :
         (ConfirmationSucceeds(i, resp) /\ YieldsDraft(resp.data))
         => /\ pendingEmail' = extractEmailDraft(resp.data)
            /\ DraftControlsOffered'
            /\ PreviewShown']_vars

\* C12 witness: a confirmation was sent for one draft and its reply put
\* another draft in its place.
C12_ConfirmationAnsweredWithDraft ==
    /\ ~inFlight
    /\ logs[1] = "Email confirmation result"
    /\ confirmedResult = Body(Null, Null, DraftOther, Undefined, Undefined)
    /\ pendingEmail = DraftOther

\* C13: when the reply to sendEmailConfirmation(true) decodes and carries
\* no actionable draft, pendingEmail becomes null.
C13_ConfirmedWithoutDraftClears ==
    [][\A i \in Requests : \A resp \in Responses("decide") :
         (/\ ConfirmationSucceeds(i, resp)
          /\ outstanding[i].text = "yes"
          /\ ~YieldsDraft(resp.data))
         => pendingEmail' = Null]_vars

\* C13 witness: the reply to a decision carried a draft already sent, and
\* no draft is pending any more.
C13_SentAndCleared ==
    /\ ~inFlight
    /\ logs[1] = "Email confirmation result"
    /\ confirmedResult = Body(Null, DraftSent, Null, Undefined, Undefined)
    /\ pendingEmail = Null

\* C14: while inFlight is true the controls that issue no request can still
\* be used: the manual text can be edited, a style chip of the pending
\* draft can be selected, and the diff toggle, when the preview shows it,
\* can be clicked.
C14_EditsAvailableWhileBusy ==
    inFlight =>
        /\ ENABLED (\E v \in ManualTexts : SetManualText(v))
        /\ DraftControlsRendered => ENABLED (\E s \in STYLE_OPTIONS : SetDraftStyle(s))
        /\ DiffToggleOffered => ENABLED ToggleDiff

\* C15: extractEmailDraft returns the draft of a reply body that holds it
\* under exactly one of result.email, email and
\* details.orchestrator.body.result.email and nothing under the other two;
\* for a body with nothing under the three paths, and for a null reply, it
\* returns null.
C15_NormalizerFindsTheDraft ==
    (call.fn = "extractEmailDraft" /\ call.returned) =>
        LET resp == call.resp
        IN IF resp = Null THEN call.value = Null
           ELSE /\ \A d \in Drafts : \A p \in DraftPaths :
                     (/\ At(resp, p) = d
                      /\ \A q \in DraftPaths \ {p} : At(resp, q) = Null)
                     => call.value = d
                /\ (\A p \in DraftPaths : At(resp, p) = Null) => call.value = Null

\* C15 witness: the draft held only under the nested path has been returned.
C15_NestedDraftReturned ==
    /\ call.fn = "extractEmailDraft" /\ call.returned
    /\ call.resp = Body(Null, Null, DraftOther, Undefined, "hello")
    /\ call.value = DraftOther

\* A decoded reply in which neither a transcript nor a draft is found.
FindsNothing(data) == extractEmailDraft(data) = Null /\ TranscriptOf(data) = ""

\* C16: handling a decoded reply that carries neither a transcript nor a
\* draft, the JSON null reply included, logs no failure message and adopts
\* no transcript and no draft.
C16_ShapeMissIsNoFailure ==
    [][\A i \in Requests : \A resp \in Responses(outstanding[i].kind) :
         (resp.type = "json" /\ FindsNothing(resp.data) /\ Handles(i, resp))
         => /\ \A m \in FailureMessages : logs' # log(m, logs)
            /\ transcript' = transcript
            /\ originalTranscript' = originalTranscript
            /\ pendingEmail' \in {pendingEmail, Null}]_vars

\* Occurrences of a token in a sequence of tokens.
Occurrences(tokens, tok) == Cardinality({ k \in DOMAIN tokens : tokens[k] = tok })

\* C17: diffTokens yields one node per styled token, in styled order, and
\* the node of a token is plain (kept) exactly when fewer earlier nodes of
\* the same token are plain than the token has occurrences in raw, and
\* marked added otherwise.
C17_KeptWhileRawOccurrencesLast ==
    (call.fn = "diffTokens" /\ call.returned) =>
        LET rawTokens == Tokens(call.raw)
            styledTokens == Tokens(call.styled)
            nodes == call.value.nodes
            KeptBefore(k) == Cardinality({ j \in 1..(k - 1) :
                                 nodes[j].text = nodes[k].text /\ ~nodes[j].added })
        IN /\ Len(nodes) = Len(styledTokens)
           /\ \A k \in DOMAIN nodes :
                /\ nodes[k].text = styledTokens[k]
                /\ ~nodes[k].added <=> KeptBefore(k) < Occurrences(rawTokens, nodes[k].text)

\* C18: the removed list of diffTokens holds every token as many times as
\* it occurs more often in raw than in styled (not at all when it does
\* not), with the copies of one token next to each other and the distinct
\* tokens in the key order of the count table built from raw.
C18_RemovedIsRawMinusStyled ==
    (call.fn = "diffTokens" /\ call.returned) =>
        LET rawTokens == Tokens(call.raw)
            styledTokens == Tokens(call.styled)
            removed == call.value.removed
            keys == ownKeys(CountFrom(rawTokens, 1, EmptyObject))
            Surplus(tok) == Occurrences(rawTokens, tok) - Occurrences(styledTokens, tok)
            Place(tok) == CHOOSE k \in DOMAIN keys : keys[k] = tok
        IN /\ \A tok \in Range(rawTokens) \cup Range(styledTokens) \cup Range(removed) :
                Occurrences(removed, tok) = IF Surplus(tok) > 0 THEN Surplus(tok) ELSE 0
           /\ \A j \in DOMAIN removed : \A k \in DOMAIN removed :
                (j < k /\ removed[j] = removed[k])
                => \A m \in j..k : removed[m] = removed[j]
           /\ \A j \in DOMAIN removed : \A k \in DOMAIN removed :
                (j < k /\ removed[j] # removed[k])
                => Place(removed[j]) < Place(removed[k])

\* One sequence of tokens is a rearrangement of the other.
IsPermutation(s, t) ==
    /\ Len(s) = Len(t)
    /\ \A tok \in Range(s) \cup Range(t) : Occurrences(s, tok) = Occurrences(t, tok)

\* C19: when the styled tokens are a rearrangement of the raw tokens, the
\* same text included, diffTokens marks no node added and removes nothing.
C19_PermutationShowsNoDiff ==
    (/\ call.fn = "diffTokens" /\ call.returned
     /\ IsPermutation(Tokens(call.raw), Tokens(call.styled)))
    => /\ \A k \in DOMAIN call.value.nodes : ~call.value.nodes[k].added
       /\ call.value.removed = <<>>

\* The captures that have been ended by stopRecording.
EndedCaptures == { h \in 1..MaxCaptures : recorders[h] \in {"stopping", "inactive"} }

\* C20: a click on Transcribe issues its request only when no request is
\* outstanding and no capture is in progress, and the audio it uploads is
\* that of the capture ended last.
C20_TranscribeOnlyCapturedAudio ==
    [][TranscribeOnly
       => /\ ~inFlight
          /\ ~recording
          /\ EndedCaptures # {}
          /\ \A h \in EndedCaptures : h <= audioBlob]_vars

\* C21: audioBlob changes only when the onstop of a recorder that was
\* stopped fires, and then it becomes the audio of that recorder; every
\* other step, a new startRecording and its recorder included, leaves the
\* audio of the capture completed last in place.  A recorder delivers its
\* audio once: the audio held is that of a recorder no longer active.
C21_LatestCompletedCaptureHeld ==
    [][/\ \A mr \in 1..MaxCaptures :
            OnStop(mr) => (recorders[mr] = "stopping" /\ audioBlob' = mr
                           /\ recorders'[mr] = "inactive")
       /\ (\A mr \in 1..MaxCaptures : ~OnStop(mr)) => audioBlob' = audioBlob
       /\ audioBlob' # 0 => recorders'[audioBlob'] = "inactive"]_vars

\* C21 witness: a second capture has completed and its audio has replaced
\* that of the first.
C21_SecondCaptureHeld ==
    /\ audioBlob = 2
    /\ recorders[1] = "inactive" /\ recorders[2] = "inactive"
    /\ ~recording

\* C22: a handler that has set inFlight resets it when its request
\* settles, by a reply or a rejection, so with every request completing
\* inFlight is false again later; inFlight is reset by nothing else, and
\* while it is true one request is outstanding and no click starts a
\* network handler.
C22_BusyEndsWithTheRequest ==
    /\ inFlight ~> ~inFlight
    /\ [][/\ \A i \in Requests : \A resp \in Responses(outstanding[i].kind) :
               Handles(i, resp) => ~inFlight'
          /\ (inFlight /\ ~inFlight')
             => \E i \in Requests : \E resp \in Responses(outstanding[i].kind) :
                   Handles(i, resp)]_vars
    /\ [](inFlight => (Len(outstanding) = 1 /\ ~ENABLED Clicks))

\* C22 witness: a request has been rejected and the console is idle again.
C22_IdleAfterRejection ==
    /\ ~inFlight /\ outstanding = <<>>
    /\ logs # <<>> /\ logs[1] = "Email confirmation failed"

\* C23: a request that fails is handled where it was issued: the handler
\* logs its failure message and resets inFlight.  A failed transcription
\* adds one entry to the log in all, the failure message: the click adds
\* none.
C23_OnlyTheFailureIsLogged ==
    [][/\ TranscribeOnly => logs' = logs
       /\ \A i \in Requests : \A resp \in Responses(outstanding[i].kind) :
            (Rejects(resp) /\ Handles(i, resp))
            => /\ inFlight' = FALSE
               /\ \E m \in FailureMessages : logs' = log(m, logs)
       /\ \A i \in Requests : \A resp \in Responses("transcribe") :
            (Rejects(resp) /\ TranscribeFails(i, resp))
            => logs' = log("Transcription failed", logs)]_vars

\* C23 as amended: a request that fails is handled where it was issued:
\* the handler logs its failure message and resets inFlight.  A failed
\* transcription adds two entries to the log: "Uploading audio for
\* transcription" at the click and, above it, the one failure message
\* "Transcription failed"; it changes nothing else, and Transcribe can be
\* clicked again.
C23_OneFailureEntryAboveTheUpload ==
    [][/\ TranscribeOnly => logs' = log("Uploading audio for transcription", logs)
       /\ \A i \in Requests : \A resp \in Responses(outstanding[i].kind) :
            (Rejects(resp) /\ Handles(i, resp))
            => /\ inFlight' = FALSE
               /\ \E m \in FailureMessages : logs' = log(m, logs)
       /\ \A i \in Requests : \A resp \in Responses("transcribe") :
            (Rejects(resp) /\ TranscribeFails(i, resp))
            => /\ logs' = log("Transcription failed", logs)
               /\ logs[1] = "Uploading audio for transcription"
               /\ UNCHANGED <<capture, transcript, originalTranscript, manualText,
                              confirmedResult, pendingEmail, draftStyle, showDiff>>
               /\ (ENABLED TranscribeOnly)']_vars

\* C23 witness: a transcription has just failed.
C23_TranscriptionJustFailed ==
    /\ ~inFlight /\ outstanding = <<>>
    /\ Len(logs) >= 2
    /\ logs[1] = "Transcription failed"
    /\ logs[2] = "Uploading audio for transcription"

\* C24: once originalTranscript holds a non-empty string, no step changes it.
C24_OriginalTranscriptIsKept ==
    [][Truthy(originalTranscript) => originalTranscript' = originalTranscript]_vars

\* Every message the console logs.
Messages ==
    FailureMessages \cup
    {"Captured audio", "Recording...", "Stopped recording",
     "Uploading audio for transcription", "Forwarding transcript to orchestrator",
     "Forward result", "Sending manual text via msg-proxy", "Manual submit result",
     "Email confirmation result"}

\* C25: the log never holds more than 200 entries; a step either leaves
\* it as it is or puts one new entry first, above the old entries in their
\* old order, of which only the oldest is dropped, and only when the log
\* already held 200.
C25_LogIsBoundedNewestFirst ==
    /\ [](Len(logs) <= 200)
    /\ [][\/ logs' = logs
          \/ /\ logs' # <<>> /\ logs'[1] \in Messages
             /\ Tail(logs') = IF Len(logs) < 200 THEN logs
                               ELSE SubSeq(logs, 1, 199)]_vars

\* C25 witness: an entry was put on a log of 200 entries and the oldest
\* entry was dropped.
C25_OldestDropped ==
    /\ Len(logs) = 200
    /\ logs[1] = "Recording..."
    /\ logs[200] = "Manual submit failed"

\* C26: Start Recording is clicked with recording false and no recorder
\* held.  When getUserMedia then rejects, recording, the recorder held, the
\* recorders and the captured audio are left as they are and the one entry
\* "Failed to start recording" is logged; when it resolves, recording is
\* true and the recorder held is a new one, which is recording.
C26_RefusedDeviceChangesNothing ==
    [][/\ StartRecording => (~recording /\ mediaRecorder = 0)
       /\ GetUserMediaRejects
          => /\ UNCHANGED <<recording, mediaRecorder, audioBlob, recorders>>
             /\ logs' = log("Failed to start recording", logs)
       /\ GetUserMediaResolves
          => /\ recording' /\ mediaRecorder' # 0
             /\ recorders[mediaRecorder'] = "none"
             /\ recorders'[mediaRecorder'] = "recording"]_vars

\* C26 witness: after a completed capture a new start was refused: the
\* console is not recording, holds no recorder and still has the audio.
C26_RefusedAfterCapture ==
    /\ logs # <<>> /\ logs[1] = "Failed to start recording"
    /\ ~recording /\ mediaRecorder = 0 /\ acquiring = 0
    /\ audioBlob = 1

\* The draft is one that handling this reply to applyStyle leaves, as it is
\* after an earlier applyStyle that got the same reply.
LeftByReply(draft, resp) ==
    (resp.type = "json" /\ resp.data # Null /\ resp.data.email # Null)
    => draft = resp.data.email

\* C27: when applyStyle is repeated with the same style and its endpoint
\* answers as it did the first time, the styled body of the pending draft
\* after the second reply is the one the first reply left.
C27_RepeatedStyleKeepsStyledBody ==
    [][\A i \in Requests : \A resp \in Responses("style") :
         (/\ outstanding[i].kind = "style"
          /\ LeftByReply(outstanding[i].pre.pendingEmail, resp)
          /\ StyleSucceeds(i, resp) \/ StyleFails(i, resp))
         => /\ pendingEmail' # Null
            /\ pendingEmail'.styled_body = outstanding[i].pre.pendingEmail.styled_body]_vars

\* C27 witness: a draft styled by an earlier applyStyle is pending and
\* applyStyle has been clicked again with the same style.
C27_SecondApplyInFlight ==
    /\ inFlight /\ Len(outstanding) = 1
    /\ outstanding[1].kind = "style"
    /\ outstanding[1].text = "formal"
    /\ outstanding[1].pre.pendingEmail = DraftStyled

\* C28: a click on the diff toggle (after which the render computes the
\* diff, or no longer does), the selection of a style and an edit of the
\* manual text leave pendingEmail, transcript, originalTranscript,
\* confirmedResult, audioBlob, inFlight and the log as they are.
C28_EditsTouchNoSessionData ==
    [][(\/ ToggleDiff
        \/ \E s \in STYLE_OPTIONS : SetDraftStyle(s)
        \/ \E v \in ManualTexts : SetManualText(v))
       => UNCHANGED <<pendingEmail, transcript, originalTranscript, confirmedResult,
                      audioBlob, inFlight, logs, outstanding>>]_vars

\* C28 witness: the diff of a styled draft is being shown, another style
\* has been selected and a manual text typed, while a request is pending.
C28_EditedWhileDiffShown ==
    /\ DiffComputed /\ pendingEmail = DraftStyled
    /\ draftStyle = "casual"
    /\ manualText = "send email"
    /\ inFlight

\* C29: of the drafts a reply body holds, extractEmailDraft returns the
\* one under result.email when there is one, else the one under email
\* when there is one, else the one under
\* details.orchestrator.body.result.email.
C29_FirstPathInProbeOrderWins ==
    (call.fn = "extractEmailDraft" /\ call.returned /\ call.resp # Null) =>
        LET resp == call.resp
        IN /\ At(resp, "result.email") # Null
              => call.value = At(resp, "result.email")
           /\ (At(resp, "result.email") = Null /\ At(resp, "email") # Null)
              => call.value = At(resp, "email")
           /\ (At(resp, "result.email") = Null /\ At(resp, "email") = Null)
              => call.value = At(resp, "details.orchestrator.body.result.email")

\* C29 witness: of three different drafts, one under each path, the one
\* under result.email has been returned.
C29_ThreeDraftsFirstReturned ==
    /\ call.fn = "extractEmailDraft" /\ call.returned
    /\ call.resp = Body(DraftNew, DraftOther, DraftSent, Undefined, Undefined)
    /\ call.value = DraftNew

\* C30: the transcript read from a reply is the non-empty string under
\* details.voice_agent.body.transcript when there is one, else the
\* non-empty string under transcript when there is one, else "".
C30_TranscriptNestedThenTopLevel ==
    (call.fn = "extractTranscript" /\ call.returned) =>
        LET nested == call.resp.va_transcript
            top == call.resp.transcript
            NonEmptyString(v) == v # Undefined /\ v # ""
        IN /\ NonEmptyString(nested) => call.value = nested
           /\ (~NonEmptyString(nested) /\ NonEmptyString(top)) => call.value = top
           /\ (~NonEmptyString(nested) /\ ~NonEmptyString(top)) => call.value = ""

\* C30 witness: with different transcripts under the two paths the nested
\* one has been returned.
C30_NestedTranscriptReturned ==
    /\ call.fn = "extractTranscript" /\ call.returned
    /\ call.resp.va_transcript = "hello" /\ call.resp.transcript = "schedule"
    /\ call.value = "hello"

\* ---------------------------------------------------------------------
\* C31. applyStyle and sendEmailConfirmation issue a request only while a
\* pending draft exists and the console is not busy, and then exactly
\* one; with no pending draft neither of them can be invoked, so nothing
\* is sent and nothing changes.
DraftRequest == ApplyStyle \/ \E confirm \in BOOLEAN : SendEmailConfirmation(confirm)

C31_DraftRequestsNeedPendingDraft ==
    /\ [][DraftRequest =>
            /\ pendingEmail # Null
            /\ ~inFlight
            /\ Len(outstanding') = Len(outstanding) + 1
            /\ outstanding'[Len(outstanding')].kind \in {"style", "decide"}]_vars
    /\ [](pendingEmail = Null => ~ENABLED DraftRequest)

\* A decision is in flight for the draft that was pending when it was sent.
C31_DecisionSentForPendingDraft ==
    /\ inFlight
    /\ outstanding # <<>>
    /\ outstanding[Len(outstanding)].kind = "decide"
    /\ outstanding[Len(outstanding)].pre.pendingEmail = DraftNew

\* ---------------------------------------------------------------------
\* C32. Whenever the console is not busy and manualText is non-empty,
\* whitespace-only text included, submitManual issues exactly one relay
\* request and leaves transcript, originalTranscript and the captured
\* audio unchanged.
C32_SubmitManualSendsAnyNonEmptyText ==
    (~inFlight /\ manualText # "" /\ Len(outstanding) < MaxOutstanding) =>
        ENABLED (/\ SubmitManual
                 /\ Len(outstanding') = Len(outstanding) + 1
                 /\ outstanding'[Len(outstanding')].kind = "manual"
                 /\ UNCHANGED <<transcript, originalTranscript, audioBlob>>)

\* ---------------------------------------------------------------------
\* C33. stopRecording with no recorder handle is a no-op: no state
\* changes and no log entry is added; with a handle it stops that
\* recorder, releases the handle, leaves the console not recording and
\* logs the stop.  A handle is held exactly while the console is recording.
C33_StopWithoutSessionIsNoOp ==
    /\ [](mediaRecorder = 0 => ~ENABLED (stopRecording /\ vars' # vars))
    /\ [](recording <=> mediaRecorder # 0)
    /\ [][StopRecording =>
            /\ mediaRecorder # 0
            /\ recorders[mediaRecorder] = "recording"
            /\ recorders'[mediaRecorder] = "stopping"
            /\ mediaRecorder' = 0
            /\ ~recording'
            /\ logs'[1] = "Stopped recording"]_vars

\* A capture has just been stopped; its audio has not been delivered yet.
C33_CaptureJustStopped ==
    /\ recorders[1] = "stopping"
    /\ mediaRecorder = 0
    /\ ~recording
    /\ logs # <<>> /\ logs[1] = "Stopped recording"

\* ---------------------------------------------------------------------
\* C34. Once the reply to a decide(false) has been handled and it carries
\* no new actionable draft, the Send control is no longer offered for the
\* declined draft: no decide(true) can be sent for it.
C34_DeclinedDraftCannotBeSent ==
    [][\A i \in Requests : \A resp \in Responses("decide") :
         (/\ outstanding[i].kind = "decide"
          /\ outstanding[i].text = "no"
          /\ ~YieldsDraft(resp.data)
          /\ ConfirmationSucceeds(i, resp))
         => /\ ~DraftControlsOffered'
            /\ ~(ENABLED SendEmailConfirmation(TRUE))']_vars

\* ---------------------------------------------------------------------
\* C35. Whenever the preview of an actionable draft is displayed, exactly
\* one of its plain body and its diff rendering is shown; and whenever
\* showDiff is on, the button that turns it off is offered.
C35_OneBodyRenderingShown ==
    PreviewShown =>
        /\ PlainBodyShown # DiffShown
        /\ showDiff => DiffToggleOffered

\* ---------------------------------------------------------------------
\* C36. transcript equals originalTranscript in every reachable state:
\* the two are cleared together and set together, and no other handler
\* writes either of them.
C36_TranscriptEqualsOriginal == transcript = originalTranscript

\* A transcript is held while a decision on a draft is in flight.
C36_TranscriptHeldDuringDecision ==
    /\ Truthy(transcript)
    /\ originalTranscript = transcript
    /\ outstanding # <<>>
    /\ outstanding[1].kind = "decide"

\* ---------------------------------------------------------------------
\* C37. A forward is initiated only with a transcript of the audio the
\* console currently holds: when a capture completes and its audio
\* replaces the audio held, Forward is not possible until that audio has
\* been transcribed.
C37_ForwardNeedsTranscriptOfHeldAudio ==
    [][\A mr \in 1..MaxCaptures :
         OnStop(mr) => /\ ForwardDisabled'
                       /\ ~(ENABLED ConfirmForward)']_vars

\* ---------------------------------------------------------------------
\* C38. For all raw and styled texts diffTokens conserves tokens: the
\* number of kept nodes plus the number of removed tokens is the number
\* of raw tokens, and the number of kept nodes plus the number of added
\* nodes is the number of styled tokens.
C38_DiffConservesTokens ==
    (call.fn = "diffTokens" /\ call.returned) =>
        LET nodes == call.value.nodes
            kept == Cardinality({ k \in DOMAIN nodes : ~nodes[k].added })
            added == Cardinality({ k \in DOMAIN nodes : nodes[k].added })
        IN /\ kept + Len(call.value.removed) = Len(Tokens(call.raw))
           /\ kept + added = Len(Tokens(call.styled))

====
